---- MODULE Spec2Model ----
(***************************************************************************)
(* A model of src/connection.rs: the Connection wrapper around the native  *)
(* engine handle (busy-handler registration, iterate, drop), OpenFlags,    *)
(* the Select row sequence, Row access by name and position, and typed     *)
(* extraction.                                                             *)
(*                                                                         *)
(* An Option<T> of the source is a set with at most one element: None is   *)
(* {} and Some(x) is {x}.  A null context pointer is {} as well.           *)
(***************************************************************************)
EXTENDS Integers, Sequences, FiniteSets, TLC

\* ------------------------------------------------------------------ bounds
\* Closures the caller may hand to set_busy_handler during one behaviour.
MaxClosures == 3
\* Busy events the engine raises during one behaviour.
MaxBusyEvents == 2
\* Rows a statement produces, and columns it has.
MaxRows == 2
MaxCols == 2
\* Advances of one Select, and Option<..> wrappers around a requested type.
MaxAdvances == 5
MaxOptionDepth == 2
\* Setter calls chained on one OpenFlags value.
MaxSetters == 3

\* --------------------------------------------------------------- variables
VARIABLES
    conn,        \* the Connection value: [exists, busy_callback]
    db,          \* the engine's side of the handle: [status, xBusy, pArg, closes]
    released,    \* closures whose Box has been dropped
    boxed,       \* how many closures the caller has created so far
    trace,       \* what the last Connection operation did, in program order
    last,        \* the last Connection operation and its Result
    superseded,  \* closures that were registered when set_busy_handler was called
    busy,        \* engine-side busy events: the last invocation of the
                 \* registered handler (n, ctx, dangling, stale, arg, answer,
                 \* out, fate) and the blocked operation's retry loop (prior,
                 \* active)
    it,          \* one Connection::iterate call: its inputs, position and Result
    sel,         \* the Select: [made, cursor, error, columns_map], what prepare
                 \* returned, and counts of its advances (n), of the deferred
                 \* errors it yielded and of the None it returned (0, 1, or 2 for more)
    item,        \* what the last advance of the Select returned
    got,         \* the last Row::get / Row::try_get and its outcome
    ex,          \* one typed extraction: [v, T, done, out]
    flags        \* an OpenFlags value under construction: [word, applied], and
                 \* the flags Connection::open passed on (opened)

connVars == <<conn, db, released, boxed, trace, last, superseded, busy>>

iterVars == <<it>>
selVars == <<sel, item, got>>
exVars == <<ex>>
flagVars == <<flags>>

vars == <<conn, db, released, boxed, trace, last, superseded, busy, it, sel, item, got, ex,
         flags>>

\* ------------------------------------------------------------ native codes
\* What a native call may report: success, or a failure status.
NativeCodes == {"SQLITE_OK", "SQLITE_MISUSE"}

\* The ok! macro: a status other than SQLITE_OK becomes Err carrying it.
ok(code) ==
    IF code = "SQLITE_OK" THEN [ok |-> TRUE, code |-> "SQLITE_OK"]
    ELSE [ok |-> FALSE, code |-> code]

\* ------------------------------------------------------------------ engine
\* sqlite3_busy_handler(db, xBusy, pArg): on success the engine's single busy
\* registration is replaced; a failing call leaves the registration as it was.
sqlite3_busy_handler(d, xBusy, pArg, code) ==
    IF code = "SQLITE_OK"
    THEN [d EXCEPT !.xBusy = xBusy, !.pArg = pArg]
    ELSE d

\* sqlite3_busy_timeout(db, ms): installs the engine's own retry-until-timeout
\* handler (no context) for ms > 0 and clears the registration for ms = 0.
sqlite3_busy_timeout(d, ms, code) ==
    IF code = "SQLITE_OK"
    THEN [d EXCEPT !.xBusy = IF ms > 0 THEN "default" ELSE "none", !.pArg = {}]
    ELSE d

\* sqlite3_close(db): the handle is gone, and with it every registration.
sqlite3_close(d) ==
    [d EXCEPT !.status = "closed", !.xBusy = "none", !.pArg = {},
              !.closes = d.closes + 1]

\* ------------------------------------------------------------- Connection
\* The program state an operation works on.
State == [conn |-> conn, db |-> db, released |-> released, trace |-> <<>>]

\* self.busy_callback = v: the Box held before is dropped.
assign_busy_callback(s, v) ==
    [s EXCEPT !.conn.busy_callback = v,
              !.released = s.released \cup (s.conn.busy_callback \ v),
              !.trace = s.trace
                  \o [i \in 1..Cardinality(s.conn.busy_callback \ v) |->
                         <<"release", s.conn.busy_callback>>]
                  \o (IF v = {} THEN <<>> ELSE <<<<"store", v>>>>)]

\* The native call of remove_busy_handler and set_busy_handler.
call_busy_handler(s, xBusy, pArg, code) ==
    [s EXCEPT !.db = sqlite3_busy_handler(s.db, xBusy, pArg, code),
              !.trace = s.trace \o <<<<"sqlite3_busy_handler", pArg, code>>>>]

\* Connection::remove_busy_handler
remove_busy_handler(s, code) ==
    LET s1 == assign_busy_callback(s, {})
        s2 == call_busy_handler(s1, "none", {}, code)
    IN  [s |-> s2, ret |-> ok(code)]

\* A set_busy_handler that stores the closure only once the engine has
\* accepted the registration.
set_busy_handler_storing_on_success(s, F, code1, code2) ==
    LET r == remove_busy_handler(s, code1)
    IN  IF ~r.ret.ok THEN r
        ELSE LET s1 == call_busy_handler(r.s, "busy_callback", {F}, code2)
             IN  [s |-> IF code2 = "SQLITE_OK" THEN assign_busy_callback(s1, {F}) ELSE s1,
                  ret |-> ok(code2)]

\* Connection::set_busy_handler
set_busy_handler(s, F, code1, code2) ==
    LET r == remove_busy_handler(s, code1)
    IN  IF ~r.ret.ok THEN r
        ELSE LET s1 == call_busy_handler(r.s, "busy_callback", {F}, code2)
                 s2 == assign_busy_callback(s1, {F})
             IN  [s |-> s2, ret |-> ok(code2)]

\* A set_busy_timeout that gives up the stored closure before the native call.
set_busy_timeout_releasing(s, ms, code) ==
    LET s1 == assign_busy_callback(s, {})
    IN  [s |-> [s1 EXCEPT !.db = sqlite3_busy_timeout(s1.db, ms, code),
                          !.trace = s1.trace \o <<<<"sqlite3_busy_timeout", {}, code>>>>],
         ret |-> ok(code)]

\* Connection::set_busy_timeout
set_busy_timeout(s, ms, code) ==
    [s |-> [s EXCEPT !.db = sqlite3_busy_timeout(s.db, ms, code),
                     !.trace = s.trace \o <<<<"sqlite3_busy_timeout", {}, code>>>>],
     ret |-> ok(code)]

\* A drop that stops at a failing clearing call, as `?` would.
drop_propagating(s, code) ==
    LET r == remove_busy_handler(s, code)
    IN  IF ~r.ret.ok THEN r
        ELSE [s |-> [r.s EXCEPT !.db = sqlite3_close(r.s.db),
                                !.trace = r.s.trace \o <<<<"sqlite3_close", {}, "SQLITE_OK">>>>,
                                !.conn.exists = FALSE],
              ret |-> ok("SQLITE_OK")]

\* Drop for Connection
drop(s, code) ==
    LET r  == remove_busy_handler(s, code)
        s1 == [r.s EXCEPT !.db = sqlite3_close(r.s.db),
                          !.trace = r.s.trace \o <<<<"sqlite3_close", {}, "SQLITE_OK">>>>]
    IN  [s |-> [s1 EXCEPT !.conn.exists = FALSE], ret |-> ok("SQLITE_OK")]

\* ---------------------------------------------------------------- actions
\* A method of the Connection can be called: the process is running and no
\* operation of the Connection is inside the engine (the methods borrow it).
CanCall == busy.fate = "returned" /\ ~busy.active

Commit(op, r) ==
    /\ conn' = r.s.conn
    /\ db' = r.s.db
    /\ released' = r.s.released
    /\ trace' = r.s.trace
    /\ last' = [op |-> op, ret |-> r.ret]

\* An open_with_flags that returns the error without closing the handle.
Open_leaking ==
    /\ db.status = "none"
    /\ \E code \in NativeCodes :
         /\ conn' = [conn EXCEPT !.exists = (code = "SQLITE_OK")]
         /\ db' = [db EXCEPT !.status = IF code = "SQLITE_OK" THEN "open" ELSE "failed"]
         /\ trace' = <<<<"sqlite3_open_v2", {}, code>>>>
         /\ last' = [op |-> "open", ret |-> ok(code)]
    /\ UNCHANGED <<released, boxed, superseded, busy, iterVars, selVars, exVars, flagVars>>

\* Connection::open_with_flags
Open ==
    /\ db.status = "none"
    /\ \E code \in NativeCodes :
         IF code = "SQLITE_OK"
         THEN /\ conn' = [exists |-> TRUE, busy_callback |-> {}]
              /\ db' = [db EXCEPT !.status = "open"]
              /\ trace' = <<<<"sqlite3_open_v2", {}, code>>>>
              /\ last' = [op |-> "open", ret |-> ok(code)]
         ELSE /\ conn' = conn
              /\ db' = sqlite3_close(db)
              /\ trace' = <<<<"sqlite3_open_v2", {}, code>>,
                            <<"sqlite3_close", {}, "SQLITE_OK">>>>
              /\ last' = [op |-> "open", ret |-> ok(code)]
    /\ UNCHANGED <<released, boxed, superseded, busy, iterVars, selVars, exVars, flagVars>>

SetBusyHandler ==
    /\ conn.exists
    /\ CanCall
    /\ boxed < MaxClosures
    /\ \E code1 \in NativeCodes, code2 \in NativeCodes :
         Commit("set_busy_handler", set_busy_handler(State, boxed + 1, code1, code2))
    /\ boxed' = boxed + 1
    /\ superseded' = superseded \cup (IF db.xBusy = "busy_callback" THEN db.pArg ELSE {})
    /\ UNCHANGED <<busy, iterVars, selVars, exVars, flagVars>>

SetBusyTimeout ==
    /\ conn.exists
    /\ CanCall
    /\ \E ms \in {0, 1}, code \in NativeCodes :
         Commit("set_busy_timeout", set_busy_timeout(State, ms, code))
    /\ UNCHANGED <<boxed, superseded, busy, iterVars, selVars, exVars, flagVars>>

RemoveBusyHandler ==
    /\ conn.exists
    /\ CanCall
    /\ \E code \in NativeCodes :
         Commit("remove_busy_handler", remove_busy_handler(State, code))
    /\ UNCHANGED <<boxed, superseded, busy, iterVars, selVars, exVars, flagVars>>

Drop ==
    /\ conn.exists
    /\ CanCall
    /\ \E code \in NativeCodes : Commit("drop", drop(State, code))
    /\ UNCHANGED <<boxed, superseded, busy, iterVars, selVars, exVars, flagVars>>

\* busy_callback::<F>: the trampoline the engine calls with the registered
\* context; it calls the closure behind the context with the attempt count.
busy_callback(answer) == IF answer THEN 1 ELSE 0

\* What becomes of a panic that reaches the end of an extern "C" function:
\* the build aborts the process there, or the panic unwinds into the frames
\* of the engine (undefined).
PanicFates == {"aborted", "unwound"}

\* A busy event of a blocked operation: the engine calls its registered handler
\* with the number of times it has called it for this operation, and retries
\* the operation when the handler returns non-zero. A context whose closure is
\* released is a dangling pointer: the call is undefined and may return either
\* value, whatever the closure would have answered.
BusyEvent ==
    /\ db.status = "open"
    /\ db.xBusy = "busy_callback"
    /\ busy.fate = "returned"
    /\ busy.n < MaxBusyEvents
    /\ \E answer \in BOOLEAN, undefined \in {0, 1} :
         LET dangling == db.pArg \cap released # {}
             out      == IF dangling THEN undefined ELSE busy_callback(answer)
         IN  busy' = [n |-> busy.n + 1, ctx |-> db.pArg,
                      dangling |-> dangling,
                      stale |-> db.pArg \cap superseded # {},
                      arg |-> busy.prior, answer |-> answer, out |-> out,
                      panicked |-> FALSE, fate |-> "returned",
                      prior |-> IF out # 0 THEN busy.prior + 1 ELSE 0,
                      active |-> out # 0]
    /\ UNCHANGED <<conn, db, released, boxed, trace, last, superseded, iterVars, selVars, exVars, flagVars>>

\* A busy event whose closure panics: busy_callback has no catch_unwind, so
\* the panic leaves the trampoline and it returns nothing to the engine.
BusyPanic ==
    /\ db.status = "open"
    /\ db.xBusy = "busy_callback"
    /\ busy.fate = "returned"
    /\ busy.n < MaxBusyEvents
    /\ \E fate \in PanicFates :
         busy' = [busy EXCEPT !.n = busy.n + 1, !.ctx = db.pArg,
                      !.dangling = db.pArg \cap released # {},
                      !.stale = db.pArg \cap superseded # {},
                      !.arg = busy.prior,
                      !.panicked = TRUE, !.fate = fate, !.active = FALSE]
    /\ UNCHANGED <<conn, db, released, boxed, trace, last, superseded, iterVars, selVars, exVars, flagVars>>

\* The lock the operation waited for is released: the retried operation goes
\* through and the engine's count of attempts starts again.
Unblocked ==
    /\ busy.active
    /\ busy.fate = "returned"
    /\ busy' = [busy EXCEPT !.active = FALSE, !.prior = 0]
    /\ UNCHANGED <<conn, db, released, boxed, trace, last, superseded, iterVars, selVars, exVars, flagVars>>

\* ---------------------------------------------------------------- iterate
\* Column names the engine reports, and the texts it hands out.
Names == {"a", "b"}
Texts == {"x", "y"}

\* A C string pointer of the engine: null, or pointing at a text.
CPtrs == {[null |-> TRUE, str |-> ""]} \cup {[null |-> FALSE, str |-> t] : t \in Texts}

\* Every sequence over S of length n, and of length at most n.
SeqN(S, n) == [1..n -> S]
SeqUpTo(S, n) == UNION {SeqN(S, k) : k \in 0..n}

\* A marshaling that hands out an empty text for a null value pointer.
process_callback_pairs_null_as_empty(count, values, columns) ==
    [i \in 1..count |->
        <<columns[i], IF values[i].null THEN {""} ELSE {values[i].str}>>]

\* process_callback::<F>, up to the call of the closure: the pairs it builds
\* from `count`, `values` and `columns`.
process_callback_pairs(count, values, columns) ==
    [i \in 1..count |->
        <<columns[i], IF values[i].null THEN {} ELSE {values[i].str}>>]

\* process_callback::<F>: 0 (go on) when the closure returns true, 1 (stop)
\* when it returns false.
process_callback(answer) == IF answer THEN 0 ELSE 1

\* The caller's closure: it returns false at its `stop`-th invocation (never
\* when stop = 0) and true otherwise.
closure_answer(stop, invocation) == invocation # stop

\* sqlite3_exec's status once the row callback has returned `r` for a row:
\* a non-zero return aborts the statement with SQLITE_ABORT.
sqlite3_exec_after_row(r) == IF r # 0 THEN "SQLITE_ABORT" ELSE "SQLITE_OK"

\* Connection::iterate, the call: the closure is boxed and sqlite3_exec starts.
Iterate ==
    /\ it.pc \in {"idle", "done"}
    /\ \E n \in 0..MaxCols, stop \in 0..(MaxRows + 1), nrows \in 0..MaxRows,
          code \in {"SQLITE_OK", "SQLITE_ERROR"} :
         \E columns \in SeqN(Names, n) :
           /\ n = 0 => nrows = 0
           /\ it' = [pc |-> "exec", columns |-> columns, nrows |-> nrows,
                  stop |-> stop, fail |-> code, pos |-> 0, calls |-> 0,
                  values |-> <<>>, pairs |-> <<>>, panicked |-> FALSE, rc |-> "SQLITE_OK", ret |-> ok("SQLITE_OK")]
    /\ UNCHANGED <<connVars, selVars, exVars, flagVars>>

\* sqlite3_exec produces the next row and calls process_callback with it.
ExecRow ==
    /\ it.pc = "exec"
    /\ it.fail = "SQLITE_OK"
    /\ it.pos < it.nrows
    /\ \E values \in SeqN(CPtrs, Len(it.columns)) :
         LET r  == process_callback(closure_answer(it.stop, it.calls + 1))
             rc == sqlite3_exec_after_row(r)
         IN  it' = [it EXCEPT
                     !.values = values,
                     !.pairs = process_callback_pairs(Len(it.columns), values, it.columns),
                     !.calls = it.calls + 1,
                     !.pos = it.pos + 1,
                     !.rc = rc,
                     !.pc = IF rc = "SQLITE_OK" THEN "exec" ELSE "return"]
    /\ UNCHANGED <<connVars, selVars, exVars, flagVars>>

\* sqlite3_exec produces the next row and the closure panics on it:
\* process_callback has no catch_unwind, so the panic leaves the trampoline
\* and neither it nor sqlite3_exec nor iterate returns.
ExecRowPanic ==
    /\ it.pc = "exec"
    /\ it.fail = "SQLITE_OK"
    /\ it.pos < it.nrows
    /\ \E values \in SeqN(CPtrs, Len(it.columns)), fate \in PanicFates :
         it' = [it EXCEPT
                 !.values = values,
                 !.pairs = process_callback_pairs(Len(it.columns), values, it.columns),
                 !.calls = it.calls + 1,
                 !.pos = it.pos + 1,
                 !.panicked = TRUE,
                 !.pc = fate]
    /\ UNCHANGED <<connVars, selVars, exVars, flagVars>>

\* sqlite3_exec ends: no row is left, or the statement failed.
ExecEnd ==
    /\ it.pc = "exec"
    /\ it.fail # "SQLITE_OK" \/ it.pos = it.nrows
    /\ it' = [it EXCEPT !.rc = it.fail, !.pc = "return"]
    /\ UNCHANGED <<connVars, selVars, exVars, flagVars>>

\* Connection::iterate, the return: ok!(sqlite3_exec(...)); Ok(())
IterateReturn ==
    /\ it.pc = "return"
    /\ it' = [it EXCEPT !.ret = ok(it.rc), !.pc = "done"]
    /\ UNCHANGED <<connVars, selVars, exVars, flagVars>>

IdleIterate ==
    it = [pc |-> "idle", columns |-> <<>>, nrows |-> 0, stop |-> 0,
          fail |-> "SQLITE_OK", pos |-> 0, calls |-> 0, values |-> <<>>,
          pairs |-> <<>>, panicked |-> FALSE, rc |-> "SQLITE_OK", ret |-> ok("SQLITE_OK")]

\* ------------------------------------------------------ typed extraction
\* A Value: its tag and its payload (n for Integer; s for Float, Text and Blob).
Value(tag, n, str) == [tag |-> tag, n |-> n, s |-> str]
Null == Value("Null", 0, "")

Values ==
    {Null}
    \cup {Value("Integer", n, "") : n \in {-1, 0, 5}}
    \cup {Value("Float", 0, f) : f \in {"0.0", "1.5"}}
    \cup {Value("Text", 0, t) : t \in {"", "x"}}
    \cup {Value("Blob", 0, b) : b \in {"", "ff"}}

\* Value's read accessors.
as_integer(v) == IF v.tag = "Integer" THEN {v.n} ELSE {}
as_float(v) == IF v.tag = "Float" THEN {v.s} ELSE {}
as_string(v) == IF v.tag = "Text" THEN {v.s} ELSE {}
as_binary(v) == IF v.tag = "Blob" THEN {v.s} ELSE {}

\* A requested type is a base type under zero or more Option wrappers:
\* <<"Option", "Option", "i64">> is Option<Option<i64>>.
BaseTypes == {"Value", "i64", "f64", "String", "Vec<u8>"}
Wrap(k, B) == [i \in 1..(k + 1) |-> IF i <= k THEN "Option" ELSE B]
Types == {Wrap(k, B) : k \in 0..MaxOptionDepth, B \in BaseTypes}

\* impl ValueInto for Value / i64 / f64 / String / Vec<u8>
ValueInto_Value(v) == {v}
\* A conversion that substitutes the default on a mismatch.
ValueInto_i64_or_default(v) == IF as_integer(v) = {} THEN {0} ELSE as_integer(v)

ValueInto_i64(v) == as_integer(v)
ValueInto_f64(v) == as_float(v)
ValueInto_String(v) == {x : x \in as_string(v)}
ValueInto_Vec(v) == {x : x \in as_binary(v)}

\* An Option conversion without the Null arm.
ValueInto_Option_delegating(v, inner) == {{x} : x \in inner}

\* impl<T: ValueInto> ValueInto for Option<T>, given T's conversion of v
ValueInto_Option(v, inner) ==
    IF v.tag = "Null" THEN {{}} ELSE {{x} : x \in inner}

\* T::try_convert_value_into(v): absent is {}, present is {result}.
RECURSIVE try_convert_value_into(_, _)
try_convert_value_into(T, v) ==
    CASE T[1] = "Value"   -> ValueInto_Value(v)
      [] T[1] = "i64"     -> ValueInto_i64(v)
      [] T[1] = "f64"     -> ValueInto_f64(v)
      [] T[1] = "String"  -> ValueInto_String(v)
      [] T[1] = "Vec<u8>" -> ValueInto_Vec(v)
      [] T[1] = "Option"  -> ValueInto_Option(v, try_convert_value_into(Tail(T), v))

\* One extraction of a Value as a requested type.
Extract ==
    /\ ~ex.done
    /\ ex' = [ex EXCEPT !.done = TRUE, !.out = try_convert_value_into(ex.T, ex.v)]
    /\ UNCHANGED <<connVars, iterVars, selVars, flagVars>>

\* The caller picks the next Value and type.
ExtractAgain ==
    /\ ex.done
    /\ \E v \in Values, T \in Types : ex' = [v |-> v, T |-> T, done |-> FALSE, out |-> {}]
    /\ UNCHANGED <<connVars, iterVars, selVars, flagVars>>

IdleExtract == ex = [v |-> Null, T |-> <<"Value">>, done |-> FALSE, out |-> {}]

InitExtract == \E v \in Values, T \in Types : ex = [v |-> v, T |-> T, done |-> FALSE, out |-> {}]

\* ------------------------------------------------------------ Select, Row
\* The Values the engine's rows hold here.
RowValues == {Null, Value("Integer", 5, "")}

\* The types Row::get and Row::try_get are asked for here.
RowTypes == {<<"Value">>, <<"i64">>, <<"Option", "i64">>}

\* HashMap::insert
insert(m, k, x) == [y \in DOMAIN m \cup {k} |-> IF y = k THEN x ELSE m[y]]

EmptyMap == [y \in {} |-> 0]

\* Select::create_columns_map: (0..column_count).map(|i| (column_name(i), i)).collect()
RECURSIVE collect_columns(_, _)
collect_columns(columns, n) ==
    IF n = 0 THEN EmptyMap
    ELSE insert(collect_columns(columns, n - 1), columns[n], n - 1)

\* A map in which the first column of a name wins.
create_columns_map_first_wins(statement) ==
    [name \in {statement.columns[i] : i \in DOMAIN statement.columns} |->
        (CHOOSE i \in DOMAIN statement.columns :
            /\ statement.columns[i] = name
            /\ \A j \in DOMAIN statement.columns : statement.columns[j] = name => i <= j) - 1]

\* A map that counts positions from one.
create_columns_map_one_based(statement) ==
    [name \in DOMAIN collect_columns(statement.columns, Len(statement.columns)) |->
        collect_columns(statement.columns, Len(statement.columns))[name] + 1]

create_columns_map(statement) == collect_columns(statement.columns, Len(statement.columns))

\* A query that loses the prepare error.
Select_query_losing_error(prepared) ==
    IF prepared.ok
    THEN [error |-> {},
          columns_map |-> create_columns_map(prepared.statement),
          cursor |-> {prepared.statement}]
    ELSE [cursor |-> {}, error |-> {}, columns_map |-> EmptyMap]

\* Select::query, given the outcome of conn.prepare(query)
Select_query(prepared) ==
    IF prepared.ok
    THEN [error |-> {},
          columns_map |-> create_columns_map(prepared.statement),
          cursor |-> {prepared.statement}]
    ELSE [cursor |-> {}, error |-> {prepared.code}, columns_map |-> EmptyMap]

\* Cursor::next, given what the engine's step does: once no row is left it
\* returns Ok(None) and stays there; before, a row or an engine error.
Cursor_next(cursor, step) ==
    IF cursor.left = 0
    THEN [cursor |-> cursor, kind |-> "None", err |-> "", row |-> <<>>]
    ELSE IF step.code # "SQLITE_OK"
    THEN [cursor |-> cursor, kind |-> "Err", err |-> step.code, row |-> <<>>]
    ELSE [cursor |-> [cursor EXCEPT !.left = cursor.left - 1],
          kind |-> "Row", err |-> "", row |-> step.row]

NoItem == [kind |-> "none", from |-> "", err |-> "", row |-> <<>>, columns_map |-> EmptyMap]

\* An advance that reads the pending error without taking it.
Select_next_keeping_error(s, step) ==
    IF s.error # {}
    THEN [s |-> s,
          item |-> [NoItem EXCEPT !.kind = "Err", !.from = "error",
                                  !.err = CHOOSE e \in s.error : TRUE]]
    ELSE [s |-> s, item |-> [NoItem EXCEPT !.kind = "None"]]

\* Iterator for Select: next
Select_next(s, step) ==
    LET columns_map == s.columns_map
        taken == s.error
        s1 == [s EXCEPT !.error = {}]
    IN  IF taken # {}
        THEN [s |-> s1,
              item |-> [NoItem EXCEPT !.kind = "Err", !.from = "error",
                                      !.err = CHOOSE e \in taken : TRUE]]
        ELSE IF s1.cursor # {}
        THEN LET r == Cursor_next(CHOOSE c \in s1.cursor : TRUE, step)
             IN  [s |-> [s1 EXCEPT !.cursor = {r.cursor}],
                  item |-> IF r.kind = "Row"
                           THEN [NoItem EXCEPT !.kind = "Row", !.from = "cursor",
                                               !.row = r.row, !.columns_map = columns_map]
                           ELSE [NoItem EXCEPT !.kind = r.kind, !.from = "cursor",
                                               !.err = r.err]]
        ELSE [s |-> s1, item |-> [NoItem EXCEPT !.kind = "None"]]

\* A column selector: a name or a zero-based position.
ByName(name) == [by |-> "name", name |-> name, pos |-> 0]
ByPos(i) == [by |-> "pos", name |-> "", pos |-> i]

\* ColumnIndex for &str: &row.row[row.columns_map[*self]]; an unknown key and
\* an index past the end of the row panic.
get_value_str(name, row) ==
    IF name \notin DOMAIN row.columns_map THEN [panic |-> TRUE, v |-> Null]
    ELSE IF row.columns_map[name] >= Len(row.row) THEN [panic |-> TRUE, v |-> Null]
    ELSE [panic |-> FALSE, v |-> row.row[row.columns_map[name] + 1]]

\* ColumnIndex for usize: &row.row[*self]
get_value_usize(i, row) ==
    IF i >= Len(row.row) THEN [panic |-> TRUE, v |-> Null]
    ELSE [panic |-> FALSE, v |-> row.row[i + 1]]

get_value(column, row) ==
    IF column.by = "name" THEN get_value_str(column.name, row)
    ELSE get_value_usize(column.pos, row)

\* format!("{:?}", column): a name is printed quoted, a position as digits.
Debug(column) ==
    IF column.by = "name" THEN <<"quote", column.name, "quote">> ELSE <<"usize", column.pos>>

Panicked == [kind |-> "panic", val |-> {}, err |-> {}]

\* Row::try_get
try_get(row, T, column) ==
    LET g == get_value(column, row)
    IN  IF g.panic THEN Panicked
        ELSE LET c == try_convert_value_into(T, g.v)
             IN  IF c # {} THEN [kind |-> "Ok", val |-> c, err |-> {}]
                 ELSE [kind |-> "Err", val |-> {},
                       err |-> {[code |-> {},
                                 message |-> {<<"column ", Debug(column),
                                                " could not be read">>}]}]

\* Row::get: self.try_get(column).unwrap()
get(row, T, column) ==
    LET r == try_get(row, T, column)
    IN  IF r.kind = "Ok" THEN r ELSE Panicked

NoAccess == [op |-> "none", T |-> <<"Value">>, column |-> ByPos(0), res |-> Panicked]

\* What conn.prepare(query) may return: an error, or a statement with its
\* column names and the number of rows it will produce.
Statements ==
    {[columns |-> c, left |-> n] :
        c \in SeqUpTo(Names, MaxCols) \ {<<>>}, n \in 0..MaxRows}
    \cup {[columns |-> <<>>, left |-> 0]}

Prepared ==
    {[ok |-> TRUE, code |-> "SQLITE_OK", statement |-> st] : st \in Statements}
    \cup {[ok |-> FALSE, code |-> "SQLITE_ERROR", statement |-> [columns |-> <<>>, left |-> 0]]}

\* Connection::select
SelectQuery ==
    /\ ~sel.made
    /\ \E prepared \in Prepared :
         LET s == Select_query(prepared)
         IN  sel' = [made |-> TRUE, cursor |-> s.cursor, error |-> s.error,
                     columns_map |-> s.columns_map,
                     prepared |-> prepared, n |-> 0, deferred |-> 0, nones |-> 0]
    /\ item' = NoItem
    /\ got' = NoAccess
    /\ UNCHANGED <<connVars, iterVars, exVars, flagVars>>

\* What one step of the engine may do when a row is left.
Steps(columns) ==
    {[code |-> "SQLITE_OK", row |-> r] : r \in SeqN(RowValues, Len(columns))}
    \cup {[code |-> "SQLITE_BUSY", row |-> <<>>]}

\* One advance of the Select.
Advance ==
    /\ sel.made
    /\ sel.n < MaxAdvances
    /\ \E step \in Steps(sel.prepared.statement.columns) :
         LET r == Select_next([cursor |-> sel.cursor, error |-> sel.error,
                               columns_map |-> sel.columns_map], step)
         IN  /\ sel' = [sel EXCEPT !.cursor = r.s.cursor, !.error = r.s.error,
                                   !.columns_map = r.s.columns_map,
                                   !.n = sel.n + 1,
                                   !.deferred = sel.deferred
                                       + (IF r.item.from = "error" THEN 1 ELSE 0),
                                   !.nones = IF r.item.kind = "None"
                                             THEN (IF sel.nones = 0 THEN 1 ELSE 2)
                                             ELSE sel.nones]
             /\ item' = r.item
    /\ got' = NoAccess
    /\ UNCHANGED <<connVars, iterVars, exVars, flagVars>>

\* The selectors a caller may use: the statement's names and one it does not
\* have, and the positions up to one past the widest row.
Selectors ==
    {ByName(name) : name \in Names \cup {"nonexistent_column"}}
    \cup {ByPos(i) : i \in 0..MaxCols}

\* Row::try_get on the Row the last advance yielded.  A read does not change
\* the Row, so each yielded Row is read once.
TryGet ==
    /\ item.kind = "Row"
    /\ got.op = "none"
    /\ \E T \in RowTypes, column \in Selectors :
         got' = [op |-> "try_get", T |-> T, column |-> column,
                 res |-> try_get(item, T, column)]
    /\ UNCHANGED <<connVars, iterVars, exVars, flagVars, sel, item>>

\* Row::get on the Row the last advance yielded.
Get ==
    /\ item.kind = "Row"
    /\ got.op = "none"
    /\ \E T \in RowTypes, column \in Selectors :
         got' = [op |-> "get", T |-> T, column |-> column,
                 res |-> get(item, T, column)]
    /\ UNCHANGED <<connVars, iterVars, exVars, flagVars, sel, item>>

IdleSelect ==
    /\ sel = [made |-> FALSE, cursor |-> {}, error |-> {}, columns_map |-> EmptyMap,
              prepared |-> [ok |-> FALSE, code |-> "SQLITE_ERROR",
                            statement |-> [columns |-> <<>>, left |-> 0]],
              n |-> 0, deferred |-> 0, nones |-> 0]
    /\ item = NoItem
    /\ got = NoAccess

\* -------------------------------------------------------------- OpenFlags
\* The engine's open-flag bits (sqlite3.h), as OpenFlags's setters name them.
SQLITE_OPEN_READONLY == 1
SQLITE_OPEN_READWRITE == 2
SQLITE_OPEN_CREATE == 4
SQLITE_OPEN_NOMUTEX == 32768
SQLITE_OPEN_FULLMUTEX == 65536

\* a | b on non-negative integers.
RECURSIVE BitOr(_, _)
BitOr(a, b) ==
    IF a = 0 THEN b
    ELSE IF b = 0 THEN a
    ELSE (IF a % 2 = 1 \/ b % 2 = 1 THEN 1 ELSE 0) + 2 * BitOr(a \div 2, b \div 2)

\* OpenFlags::new
OpenFlags_new == 0

\* A set_create that assigns its bit instead of or-ing it in.
set_create_assigning(f) == SQLITE_OPEN_CREATE

\* OpenFlags::set_create and the other setters: self.0 |= bit
set_create(f) == BitOr(f, SQLITE_OPEN_CREATE)
set_full_mutex(f) == BitOr(f, SQLITE_OPEN_FULLMUTEX)
set_no_mutex(f) == BitOr(f, SQLITE_OPEN_NOMUTEX)
set_read_only(f) == BitOr(f, SQLITE_OPEN_READONLY)
set_read_write(f) == BitOr(f, SQLITE_OPEN_READWRITE)

Setters == {"set_create", "set_full_mutex", "set_no_mutex", "set_read_only", "set_read_write"}

\* A call of the setter of that name.
call_setter(name, f) ==
    CASE name = "set_create" -> set_create(f)
      [] name = "set_full_mutex" -> set_full_mutex(f)
      [] name = "set_no_mutex" -> set_no_mutex(f)
      [] name = "set_read_only" -> set_read_only(f)
      [] name = "set_read_write" -> set_read_write(f)

\* The flags Connection::open passes to open_with_flags.
Connection_open_flags == set_read_write(set_create(OpenFlags_new))

\* OpenFlags::new(): a new chain of setter calls starts.
NewFlags ==
    /\ flags.applied # <<>>
    /\ flags' = [flags EXCEPT !.word = OpenFlags_new, !.applied = <<>>]
    /\ UNCHANGED <<connVars, iterVars, selVars, exVars>>

\* One more setter is called on the value.
SetFlag ==
    /\ Len(flags.applied) < MaxSetters
    /\ \E name \in Setters :
         flags' = [flags EXCEPT !.word = call_setter(name, flags.word),
                                !.applied = Append(flags.applied, name)]
    /\ UNCHANGED <<connVars, iterVars, selVars, exVars>>

\* Connection::open(path)
OpenWithDefaultFlags ==
    /\ flags.opened = {}
    /\ flags' = [flags EXCEPT !.opened = {Connection_open_flags}]
    /\ UNCHANGED <<connVars, iterVars, selVars, exVars>>

IdleFlags == flags = [word |-> OpenFlags_new, applied |-> <<>>, opened |-> {}]

\* ------------------------------------------------------- specifications
InitConn ==
    /\ conn = [exists |-> FALSE, busy_callback |-> {}]
    /\ db = [status |-> "none", xBusy |-> "none", pArg |-> {}, closes |-> 0]
    /\ released = {}
    /\ boxed = 0
    /\ trace = <<>>
    /\ last = [op |-> "none", ret |-> ok("SQLITE_OK")]
    /\ superseded = {}
    /\ busy = [n |-> 0, ctx |-> {}, dangling |-> FALSE, stale |-> FALSE,
               arg |-> 0, answer |-> FALSE, out |-> 0, panicked |-> FALSE,
               fate |-> "returned", prior |-> 0, active |-> FALSE]

Init == InitConn /\ IdleIterate /\ IdleSelect /\ IdleExtract /\ IdleFlags

\* The Connection and its busy handler.
Next ==
    \/ Open
    \/ SetBusyHandler
    \/ SetBusyTimeout
    \/ RemoveBusyHandler
    \/ Drop
    \/ BusyEvent
    \/ BusyPanic
    \/ Unblocked

Spec == Init /\ [][Next]_vars

\* Connection::iterate.
NextIterate ==
    \/ Iterate
    \/ ExecRow
    \/ ExecRowPanic
    \/ ExecEnd
    \/ IterateReturn

SpecIterate == Init /\ [][NextIterate]_vars

\* Select and Row.
NextSelect ==
    \/ SelectQuery
    \/ Advance
    \/ TryGet
    \/ Get

SpecSelect == Init /\ [][NextSelect]_vars

\* Typed extraction.
NextExtract ==
    \/ Extract
    \/ ExtractAgain

InitTyped == InitConn /\ IdleIterate /\ IdleSelect /\ InitExtract /\ IdleFlags

SpecExtract == InitTyped /\ [][NextExtract]_vars

\* OpenFlags.
NextFlags ==
    \/ NewFlags
    \/ SetFlag
    \/ OpenWithDefaultFlags

SpecFlags == Init /\ [][NextFlags]_vars

\* ------------------------------------------------------------------ claims
\* C2: whenever the engine has a custom busy-handler context registered, the
\* context refers to a closure that has not been released.
C2_RegisteredContextIsLive ==
    (db.status = "open" /\ db.xBusy = "busy_callback") => db.pArg \cap released = {}

\* C3: within set_busy_handler(B) called while the Connection holds handler A,
\* A's closure is released only after the engine has confirmed the registration
\* of B (so it is not released when that registration fails or is not made).
C3_ReleaseOnlyAfterRegistration ==
    last.op = "set_busy_handler" =>
        \A i \in DOMAIN trace :
            trace[i][1] = "release" =>
                \E j \in 1..(i - 1) :
                    /\ trace[j][1] = "sqlite3_busy_handler"
                    /\ trace[j][2] # {}
                    /\ trace[j][3] = "SQLITE_OK"

\* C4: a handler A that was registered when set_busy_handler(B) was called is
\* released, is not the engine's registered context any more and is never
\* invoked by a later busy event, whatever the call returned; and the
\* Connection owns at most one busy closure.
C4_SupersededHandlerIsGone ==
    /\ superseded \subseteq released
    /\ db.xBusy = "busy_callback" => db.pArg \cap superseded = {}
    /\ ~busy.stale
    /\ Cardinality(conn.busy_callback) <= 1

\* C1: when the closure returns false at its k-th invocation, for a statement
\* with at least k rows, the closure is invoked no more than k times and
\* iterate returns Ok(()).
C1_EarlyStopIsOk ==
    (it.pc = "done" /\ it.fail = "SQLITE_OK" /\ it.stop >= 1 /\ it.nrows >= it.stop) =>
        (it.calls <= it.stop /\ it.ret.ok)

\* C5: with a column name that is not in the row's column-name map, try_get
\* returns Err of a conversion error (no status code, a message naming the
\* column) and get aborts.
C5_UnknownNameIsConversionError ==
    (got.op # "none" /\ got.column.by = "name"
        /\ got.column.name \notin DOMAIN item.columns_map) =>
        /\ got.op = "try_get" =>
              /\ got.res.kind = "Err"
              /\ got.res.err = {[code |-> {},
                                 message |-> {<<"column ", Debug(got.column),
                                                " could not be read">>}]}
        /\ got.op = "get" => got.res.kind = "panic"

\* The column names of the statement behind the Select.
Columns == sel.prepared.statement.columns

\* C6: on every yielded Row, for every position i and requested type, try_get
\* by the name of column i and try_get by position i return the same result
\* (the same Ok value, or an Err both times), also when two columns carry the
\* same name.
C6_NameAndPositionAgree ==
    item.kind = "Row" =>
        \A i \in 0..(Len(Columns) - 1), T \in RowTypes :
            LET a == try_get(item, T, ByName(Columns[i + 1]))
                b == try_get(item, T, ByPos(i))
            IN  a.kind = b.kind /\ a.val = b.val

\* Position i is the last one that carries its column name.
LastOfName(i) == \A j \in (i + 1)..(Len(Columns) - 1) : Columns[j + 1] # Columns[i + 1]

\* C6, amended: on every yielded Row, for every position i that is the last
\* one carrying its name (every position when the names are distinct) and every
\* requested type, try_get by name and by position are both Ok with the same
\* value or both Err with no status code; each error message names the
\* selector that was used.
C6_LastNameAndPositionAgree ==
    item.kind = "Row" =>
        \A i \in 0..(Len(Columns) - 1), T \in RowTypes :
            LastOfName(i) =>
                LET a == try_get(item, T, ByName(Columns[i + 1]))
                    b == try_get(item, T, ByPos(i))
                IN  /\ a.kind \in {"Ok", "Err"}
                    /\ a.kind = b.kind
                    /\ a.val = b.val
                    /\ \A e \in a.err \cup b.err : e.code = {}
                    /\ \A e \in a.err :
                          e.message = {<<"column ", <<"quote", Columns[i + 1], "quote">>,
                                         " could not be read">>}
                    /\ \A e \in b.err :
                          e.message = {<<"column ", <<"usize", i>>, " could not be read">>}

\* C6's case: a Row with two columns of one name and different values, read
\* by that name.
C6_Witness ==
    /\ item.kind = "Row"
    /\ Len(Columns) = 2
    /\ Columns[1] = Columns[2]
    /\ item.row[1] # item.row[2]
    /\ got.op = "try_get"
    /\ got.column = ByName(Columns[2])
    /\ got.T = <<"Value">>
    /\ got.res.kind = "Ok"
    /\ got.res.val = {item.row[2]}

\* The Select has reached its end: the last advance returned None, or it
\* yielded the deferred construction error.
Terminal == item.kind = "None" \/ (item.kind = "Err" /\ item.from = "error")

\* C7: once an advance has returned None or has yielded the deferred
\* construction error, every later advance returns None.
C7_SinglePass ==
    [][(Terminal /\ sel'.n = sel.n + 1) => item'.kind = "None"]_vars

\* C7's case: a Select over one row, advanced again after it returned None.
C7_Witness ==
    /\ sel.prepared.ok
    /\ sel.prepared.statement.left = 1
    /\ sel.nones = 2
    /\ item.kind = "None"

\* C8: a failed prepare gives a Select with no cursor and the prepare error;
\* its first advance yields that error, every later one None, so exactly one
\* Err is ever yielded and no Row; a successful prepare gives a Select with a cursor and no pending error.
C8_PrepareErrorIsDeferred ==
    sel.made =>
        /\ ~sel.prepared.ok =>
              /\ sel.cursor = {}
              /\ item.kind # "Row"
              /\ item.kind = "Err" => item.from = "error"
              /\ sel.n = 0 => sel.error = {sel.prepared.code}
              /\ sel.n = 1 => (item.kind = "Err" /\ item.err = sel.prepared.code)
              /\ sel.n >= 1 => (sel.deferred = 1 /\ sel.error = {})
              /\ sel.n >= 2 => item.kind = "None"
        /\ sel.prepared.ok => (sel.cursor # {} /\ sel.error = {})

\* C8's case: a Select whose prepare failed, advanced past its error.
C8_Witness ==
    /\ sel.made
    /\ ~sel.prepared.ok
    /\ sel.n >= 2
    /\ sel.deferred = 1
    /\ item.kind = "None"

\* The payload of a Value as the type that accepts its tag holds it.
Payload(v) == IF v.tag = "Integer" THEN v.n ELSE v.s

\* The tag a base type accepts.
Accepted(B) ==
    CASE B = "i64" -> "Integer"
      [] B = "f64" -> "Float"
      [] B = "String" -> "Text"
      [] B = "Vec<u8>" -> "Blob"

\* C9: extraction as Value is present and equals v; extraction as i64, f64,
\* String, Vec<u8> is present exactly for the tag Integer, Float, Text, Blob,
\* and then equals the payload; a mismatch is absent, never a default.
C9_ExtractionByTag ==
    (ex.done /\ Len(ex.T) = 1) =>
        IF ex.T[1] = "Value" THEN ex.out = {ex.v}
        ELSE /\ (ex.out # {}) <=> (ex.v.tag = Accepted(ex.T[1]))
             /\ ex.out # {} => ex.out = {Payload(ex.v)}

\* C9's case: a Text extracted as i64 is absent.
C9_Witness ==
    /\ ex.done
    /\ ex.T = <<"i64">>
    /\ ex.v.tag = "Text"
    /\ ex.out = {}

\* C10: extraction as Option<T> of Null is Some(None); of a non-null v it is
\* the extraction as T wrapped in Some, and absent exactly when that is absent.
C10_OptionExtraction ==
    (ex.done /\ ex.T[1] = "Option") =>
        LET inner == try_convert_value_into(Tail(ex.T), ex.v)
        IN  IF ex.v.tag = "Null" THEN ex.out = {{}}
            ELSE /\ (ex.out = {}) <=> (inner = {})
                 /\ inner # {} => ex.out = {inner}

\* C10's case: Null extracted as a nested Option.
C10_Witness ==
    /\ ex.done
    /\ ex.T = <<"Option", "Option", "i64">>
    /\ ex.v.tag = "Null"
    /\ ex.out = {{}}

\* ------------------------------------------------------------------ C11
\* The native calls of the last operation, in program order.
NativeCalls == SelectSeq(trace, LAMBDA e : e[1] \notin {"release", "store"})

\* C11: dropping a Connection makes exactly two native calls, in this order:
\* the call that clears the engine's busy-handler registration (no handler,
\* no context), then the close of the handle. The close is made whatever the
\* clearing call reports, the Connection is gone afterwards, and drop reports
\* no error.
C11_DropClearsThenCloses ==
    last.op = "drop" =>
        /\ Len(NativeCalls) = 2
        /\ NativeCalls[1][1] = "sqlite3_busy_handler"
        /\ NativeCalls[1][2] = {}
        /\ NativeCalls[2][1] = "sqlite3_close"
        /\ db.status = "closed"
        /\ ~conn.exists
        /\ last.ret.ok

\* A drop whose clearing call failed, and which closed the handle all the same.
C11_Witness ==
    /\ last.op = "drop"
    /\ Len(NativeCalls) = 2
    /\ NativeCalls[1] = <<"sqlite3_busy_handler", {}, "SQLITE_MISUSE">>
    /\ db.status = "closed"

\* ------------------------------------------------------------------ C12
\* C12: the handle that the native open produces is closed exactly once on
\* every path. A failing open closes it before it returns Err and creates no
\* Connection; after a successful open the handle stays open for as long as
\* the Connection exists and is closed by drop alone; and the operation that
\* closed the handle is the last one that used it.
C12_HandleClosedExactlyOnce ==
    /\ db.closes <= 1
    /\ (last.op = "open" /\ ~last.ret.ok) =>
           /\ ~conn.exists
           /\ db.closes = 1
           /\ NativeCalls[Len(NativeCalls)][1] = "sqlite3_close"
    /\ (last.op = "open" /\ last.ret.ok) => (conn.exists /\ db.closes = 0)
    /\ conn.exists => (db.status = "open" /\ db.closes = 0)
    /\ db.status # "open" => ~conn.exists
    /\ db.closes = 1 =>
           /\ db.status = "closed"
           /\ last.op = "drop" \/ (last.op = "open" /\ ~last.ret.ok)
    /\ (last.op \notin {"none", "open"}) => (db.status = "open" <=> last.op # "drop")

\* A failed open: the handle was closed, and no Connection came of it.
C12_Witness ==
    /\ last.op = "open"
    /\ ~last.ret.ok
    /\ db.closes = 1
    /\ ~conn.exists

\* ------------------------------------------------------------------ C13
\* C13: a Result-returning operation ends in Ok or in Err and never aborts;
\* stated for Row::try_get by position: every such call ends in Ok or Err,
\* and a call with a position not smaller than the column count ends in Err.
C13_TryGetByPositionNeverAborts ==
    (got.op = "try_get" /\ got.column.by = "pos") =>
        /\ got.res.kind \in {"Ok", "Err"}
        /\ got.column.pos >= Len(item.row) => got.res.kind = "Err"

\* ------------------------------------------------------------------ C14
\* C14: for every row of iterate, the closure receives one (column name,
\* optional text) pair per column of the row, in column order: pair i carries
\* the name of column i, no text exactly when the engine's value pointer of
\* column i is null, and otherwise the text behind that pointer.
C14_RowPayload ==
    it.calls >= 1 =>
        /\ Len(it.pairs) = Len(it.columns)
        /\ \A i \in 1..Len(it.columns) :
              /\ it.pairs[i][1] = it.columns[i]
              /\ it.pairs[i][2] = {} <=> it.values[i].null
              /\ ~it.values[i].null => it.pairs[i][2] = {it.values[i].str}

\* A row of two columns with different names, the first value null and the
\* second a text, has been handed to the closure.
C14_Witness ==
    /\ it.calls >= 1
    /\ Len(it.columns) = 2
    /\ it.columns[1] # it.columns[2]
    /\ it.values[1].null
    /\ ~it.values[2].null
    /\ it.pairs[2] = <<it.columns[2], {it.values[2].str}>>

\* ------------------------------------------------------------------ C15
\* The bit a setter stands for.
BitOf(name) ==
    CASE name = "set_create" -> SQLITE_OPEN_CREATE
      [] name = "set_full_mutex" -> SQLITE_OPEN_FULLMUTEX
      [] name = "set_no_mutex" -> SQLITE_OPEN_NOMUTEX
      [] name = "set_read_only" -> SQLITE_OPEN_READONLY
      [] name = "set_read_write" -> SQLITE_OPEN_READWRITE

\* Whether the bit is set in the word.
HasBit(word, bit) == (word \div bit) % 2 = 1

\* The word in which exactly the bits of the setters in S are set.
RECURSIVE WordOf(_)
WordOf(S) ==
    IF S = {} THEN 0
    ELSE LET name == CHOOSE x \in S : TRUE IN BitOf(name) + WordOf(S \ {name})

\* C15: OpenFlags::new() has no flag set; each setter sets its own bit and
\* leaves every other bit as it was, so the flags after any sequence of setter
\* calls are exactly the bits of the setters that occur in it, whatever their
\* order and however often they repeat; and Connection::open opens with
\* exactly the create and the read-write bit.
C15_FlagsAreTheSetOfSetters ==
    /\ flags.applied = <<>> => flags.word = 0
    /\ flags.word = WordOf({flags.applied[i] : i \in 1..Len(flags.applied)})
    /\ \A name \in Setters :
          call_setter(name, flags.word)
              = flags.word + (IF HasBit(flags.word, BitOf(name)) THEN 0 ELSE BitOf(name))
    /\ flags.opened \subseteq {SQLITE_OPEN_CREATE + SQLITE_OPEN_READWRITE}

\* read-write, create and read-write again give the flags of Connection::open.
C15_Witness ==
    /\ flags.applied = <<"set_read_write", "set_create", "set_read_write">>
    /\ flags.word = SQLITE_OPEN_CREATE + SQLITE_OPEN_READWRITE
    /\ flags.opened = {flags.word}

\* ------------------------------------------------------------------ C16
\* C16: when the caller's closure panics inside a trampoline, the trampoline
\* catches the panic and returns its primitive value to the engine: the busy
\* trampoline returns 0 (no retry), the row trampoline of iterate returns
\* non-zero (iteration stops, the engine reports SQLITE_ABORT); the panic
\* never crosses the engine's frames and never ends the process.
C16_ClosurePanicIsCaught ==
    /\ busy.panicked => (busy.fate = "returned" /\ busy.out = 0 /\ busy.prior = 0)
    /\ it.panicked => (it.pc \notin PanicFates /\ it.rc = "SQLITE_ABORT")

\* ------------------------------------------------------------------ C17
\* C17: while a custom busy handler is registered, a busy event invokes the
\* registered closure, once, with the number of attempts already made for the
\* blocked operation; the trampoline returns 1 exactly when the closure
\* returns true and 0 exactly when it returns false; and the retry loop ends
\* at the first false: the operation is no longer retried and the closure is
\* not invoked again for it.
C17_BusyEventInvokesRegisteredClosure ==
    (busy.n >= 1 /\ ~busy.panicked) =>
        /\ busy.ctx \cap released = {}
        /\ busy.out = 1 <=> busy.answer
        /\ busy.out = 0 <=> ~busy.answer
        /\ busy.active => busy.prior = busy.arg + 1
        /\ busy.out = 0 => (~busy.active /\ busy.prior = 0)

\* ------------------------------------------------------------------ C18
\* C18: set_busy_timeout leaves the closure the Connection stores as it is: it
\* neither releases nor replaces it, whatever the native call reports, and
\* when the native call succeeds the engine no longer has the custom handler
\* registered; the closure stays stored until the next set_busy_handler,
\* remove_busy_handler or drop. A step into a state whose last operation is
\* set_busy_timeout is such a call, or a busy event after it.
C18_TimeoutKeepsStoredClosure ==
    [][/\ last'.op = "set_busy_timeout" =>
             /\ conn'.busy_callback = conn.busy_callback
             /\ released' = released
             /\ \A e \in {trace'[i] : i \in 1..Len(trace')} : e[1] = "sqlite3_busy_timeout"
             /\ last'.ret.ok => (db'.xBusy # "busy_callback" /\ db'.pArg = {})
       /\ conn'.busy_callback # conn.busy_callback =>
             last'.op \in {"set_busy_handler", "remove_busy_handler", "drop"}]_vars

\* After a successful set_busy_timeout the Connection stores a live closure
\* although the engine has no custom handler registered.
C18_Witness ==
    /\ last.op = "set_busy_timeout"
    /\ last.ret.ok
    /\ conn.busy_callback # {}
    /\ conn.busy_callback \cap released = {}
    /\ db.xBusy # "busy_callback"
    /\ db.pArg = {}

\* ------------------------------------------------------------------ C19
\* C19: the closure the Connection stores follows the calls made, not their
\* outcomes. After remove_busy_handler has returned, Ok or Err, the Connection
\* stores no closure. set_busy_handler(B) first makes the clearing call; when
\* that call fails, set_busy_handler returns Err, makes no registration call
\* for B and leaves the Connection without a stored closure; when it
\* succeeds, exactly one registration call for B follows and the Connection
\* stores B whether that call succeeded or failed.
C19_StoredClosureFollowsCalls ==
    /\ last.op = "remove_busy_handler" =>
          /\ conn.busy_callback = {}
          /\ Len(NativeCalls) = 1
          /\ last.ret.ok <=> NativeCalls[1][3] = "SQLITE_OK"
    /\ last.op = "set_busy_handler" =>
          /\ NativeCalls[1][1] = "sqlite3_busy_handler"
          /\ NativeCalls[1][2] = {}
          /\ IF NativeCalls[1][3] = "SQLITE_OK"
             THEN /\ Len(NativeCalls) = 2
                  /\ NativeCalls[2][1] = "sqlite3_busy_handler"
                  /\ NativeCalls[2][2] = {boxed}
                  /\ conn.busy_callback = {boxed}
                  /\ last.ret.ok <=> NativeCalls[2][3] = "SQLITE_OK"
             ELSE /\ Len(NativeCalls) = 1
                  /\ conn.busy_callback = {}
                  /\ ~last.ret.ok

\* set_busy_handler(B) has returned Err from its registration call, the engine
\* does not have B registered, and the Connection stores B all the same.
C19_Witness ==
    /\ last.op = "set_busy_handler"
    /\ ~last.ret.ok
    /\ Len(NativeCalls) = 2
    /\ conn.busy_callback = {boxed}
    /\ db.pArg # {boxed}

\* ------------------------------------------------------------------ C20
\* The highest position that carries the column name.
HighestOf(name) ==
    CHOOSE i \in 0..(Len(Columns) - 1) :
        /\ Columns[i + 1] = name
        /\ \A j \in 0..(Len(Columns) - 1) : Columns[j + 1] = name => j <= i

\* C20: the column-name map of a Select is the one built at construction and
\* stays the same through every advance: its keys are the distinct column
\* names of the statement, each mapped to a position below the column count,
\* namely the highest position carrying that name; every Row carries an equal
\* copy of it; and a lookup by name reads the last column of that name.
C20_ColumnsMap ==
    sel.made =>
        /\ ~sel.prepared.ok => DOMAIN sel.columns_map = {}
        /\ sel.prepared.ok =>
              /\ DOMAIN sel.columns_map = {Columns[i] : i \in 1..Len(Columns)}
              /\ \A name \in DOMAIN sel.columns_map :
                    /\ sel.columns_map[name] \in 0..(Len(Columns) - 1)
                    /\ sel.columns_map[name] = HighestOf(name)
        /\ item.kind = "Row" =>
              /\ item.columns_map = sel.columns_map
              /\ Len(item.row) = Len(Columns)
        /\ (/\ item.kind = "Row"
            /\ got.op = "try_get"
            /\ got.T = <<"Value">>
            /\ got.column.by = "name"
            /\ got.column.name \in DOMAIN sel.columns_map) =>
              got.res.val = {item.row[HighestOf(got.column.name) + 1]}

\* A Select over two columns of one name, advanced twice: its map still holds
\* the second position for the name, and so does the map of its second Row.
C20_Witness ==
    /\ sel.made
    /\ sel.n >= 2
    /\ item.kind = "Row"
    /\ Len(Columns) = 2
    /\ Columns[1] = Columns[2]
    /\ sel.columns_map[Columns[1]] = 1
    /\ item.columns_map = sel.columns_map

====
